---- MODULE Spec2Model ----
(***************************************************************************)
(* Wallet risk evaluators of wallet-core.                                  *)
(*                                                                         *)
(*   proxy_resolver.py   the configurable cascade evaluator                *)
(*                       (constructor, evaluate, evaluate_detailed)        *)
(*   oracle_insight.py   the stacking evaluator (four additive rules,      *)
(*                       high-frequency and blacklist among them)          *)
(*                                                                         *)
(* Python strings are modelled as sequences of one-character strings, so   *)
(* that str.lower(), str.startswith() and the compiled regular expression  *)
(* are computed character by character.  Amounts and thresholds are        *)
(* integers (every float the model uses is integral).                      *)
(***************************************************************************)
EXTENDS Integers, Sequences, FiniteSets, TLC

VARIABLES
    pc,            \* "new" before __init__, "ready" after it, "raised" when it threw
    input,         \* the records handed to __init__ (the caller's list of dicts)
    transactions,  \* self.transactions of the configurable evaluator
    config,        \* the five configuration attributes of the configurable evaluator
    returned,      \* the scores evaluate() has returned so far
    detailed,      \* what the last evaluate_detailed() returned
    sTransactions, \* self.transactions of the stacking evaluator: object references
    sResult        \* what evaluate() of the stacking evaluator computed

vars == <<pc, input, transactions, config, returned, detailed,
          sTransactions, sResult>>

\* ------------------------------------------------------------------ bounds

MaxTx == 4
MaxRaw == 1
MaxRefs == 4

\* ----------------------------------------------------------------- strings

UpperChars == <<"A","B","C","D","E","F","G","H","I","J","K","L","M",
                "N","O","P","Q","R","S","T","U","V","W","X","Y","Z">>
LowerChars == <<"a","b","c","d","e","f","g","h","i","j","k","l","m",
                "n","o","p","q","r","s","t","u","v","w","x","y","z">>
DigitChars == <<"0","1","2","3","4","5","6","7","8","9">>

LowerChar(c) ==
    IF \E i \in 1..Len(UpperChars) : UpperChars[i] = c
    THEN LowerChars[CHOOSE i \in 1..Len(UpperChars) : UpperChars[i] = c]
    ELSE c

\* str.lower()
Lower(s) == [i \in 1..Len(s) |-> LowerChar(s[i])]

\* str.startswith(prefix)
StartsWith(s, prefix) ==
    /\ Len(s) >= Len(prefix)
    /\ \A i \in 1..Len(prefix) : s[i] = prefix[i]

Min(a, b) == IF a <= b THEN a ELSE b

SeqUpTo(S, n) == UNION {[1..k -> S] : k \in 0..n}

s_empty == <<>>
s_in == <<"i","n">>
s_out == <<"o","u","t">>
s_OUT == <<"O","U","T">>
s_None == <<"N","o","n","e">>
s_abc == <<"a","b","c">>
s_unknown == <<"u","n","k","n","o","w","n">>
s_unknown_ == <<"u","n","k","n","o","w","n","_">>
s_UNKNOWN == <<"U","N","K","N","O","W","N">>
s_unknown_nl == <<"u","n","k","n","o","w","n","\n">>
s_unknownabc == <<"u","n","k","n","o","w","n","a","b","c">>
s_unknown_wallet == <<"u","n","k","n","o","w","n","_","w","a","l","l","e","t">>
s_Unknown_Wallet == <<"U","n","k","n","o","w","n","_","W","a","l","l","e","t">>
s_known_wallet == <<"k","n","o","w","n","_","w","a","l","l","e","t">>
s_friend_wallet == <<"f","r","i","e","n","d","_","w","a","l","l","e","t">>
s_suspicious_address == <<"s","u","s","p","i","c","i","o","u","s","_",
                          "a","d","d","r","e","s","s">>
s_scam_target == <<"s","c","a","m","_","t","a","r","g","e","t">>

\* --------------------------------------------- loosely typed input records

\* A field of an input dict: absent, None, a number or a string.
Missing == [tag |-> "missing", num |-> 0, str |-> <<>>]
NoneVal == [tag |-> "none", num |-> 0, str |-> <<>>]
Num(n) == [tag |-> "num", num |-> n, str |-> <<>>]
Text(s) == [tag |-> "str", num |-> 0, str |-> s]

IsDigits(s) ==
    /\ Len(s) > 0
    /\ \A i \in 1..Len(s) : \E d \in 1..Len(DigitChars) : DigitChars[d] = s[i]

DigitValue(c) == (CHOOSE d \in 1..Len(DigitChars) : DigitChars[d] = c) - 1

RECURSIVE DecimalValue(_)
DecimalValue(s) ==
    IF Len(s) = 0 THEN 0
    ELSE 10 * DecimalValue(SubSeq(s, 1, Len(s) - 1)) + DigitValue(s[Len(s)])

RECURSIVE DecimalString(_)
DecimalString(n) ==
    IF n < 10 THEN <<DigitChars[n + 1]>>
    ELSE Append(DecimalString(n \div 10), DigitChars[(n % 10) + 1])

\* float(t.get("amount", 0.0)) returns: a missing key gives the default, a
\* number converts, a string of digits parses; None is a TypeError and any
\* other string of the model a ValueError.
FloatOk(f) ==
    \/ f.tag = "missing"
    \/ f.tag = "num"
    \/ f.tag = "str" /\ IsDigits(f.str)

FloatOf(f) ==
    IF f.tag = "num" THEN f.num
    ELSE IF f.tag = "str" THEN DecimalValue(f.str)
    ELSE 0

\* str(t.get(key, ""))
StrOf(f) ==
    IF f.tag = "str" THEN f.str
    ELSE IF f.tag = "none" THEN s_None
    ELSE IF f.tag = "num" THEN DecimalString(f.num)
    ELSE s_empty

\* Tx(amount=float(...), type=str(...).lower(), destination=str(...))
MakeTx(t) ==
    [amount |-> FloatOf(t.amount),
     type |-> Lower(StrOf(t.type)),
     destination |-> StrOf(t.destination)]

\* ------------------------------------------------ configurable evaluator

DefaultThreshold == 10000
DefaultLargeOut == 20
DefaultUnknownDest == 15
DefaultBaseline == 5
DefaultMaxScore == 100

DefaultConfig ==
    [large_out_threshold |-> DefaultThreshold,
     score_large_out |-> DefaultLargeOut,
     score_unknown_dest |-> DefaultUnknownDest,
     score_baseline |-> DefaultBaseline,
     max_score |-> DefaultMaxScore]

\* re.compile(r"^unknown(?:_|$)", re.IGNORECASE).match(destination): the
\* seven letters in any case, then "_" or the end of the string ("$" also
\* matches just before a newline that ends the string).
UnknownRe(d) ==
    /\ Len(d) >= 7
    /\ Lower(SubSeq(d, 1, 7)) = s_unknown
    /\ \/ Len(d) = 7
       \/ d[8] = "_"
       \/ Len(d) = 8 /\ d[8] = "\n"

ScoreTxStacked(tx, cfg) ==
    LET lo == IF tx.type = s_out /\ tx.amount > cfg.large_out_threshold
              THEN cfg.score_large_out ELSE 0
        ud == IF UnknownRe(tx.destination) THEN cfg.score_unknown_dest ELSE 0
    IN  IF tx.type = s_out /\ tx.amount > cfg.large_out_threshold
        THEN [score |-> lo + ud, reason |-> "large_out"]
        ELSE IF UnknownRe(tx.destination)
        THEN [score |-> ud, reason |-> "unknown_destination"]
        ELSE [score |-> cfg.score_baseline, reason |-> "baseline"]

\* _score_tx: (score, reason), first match wins
ScoreTx(tx, cfg) ==
    IF tx.type = s_out /\ tx.amount > cfg.large_out_threshold
    THEN [score |-> cfg.score_large_out, reason |-> "large_out"]
    ELSE IF UnknownRe(tx.destination)
    THEN [score |-> cfg.score_unknown_dest, reason |-> "unknown_destination"]
    ELSE [score |-> cfg.score_baseline, reason |-> "baseline"]

\* _evaluate_tx
EvaluateTx(tx, cfg) == ScoreTx(tx, cfg).score

\* The loop of evaluate() from index i with running total `total`.
RECURSIVE EvaluateFrom(_, _, _, _)
EvaluateFrom(txs, cfg, i, total) ==
    IF i > Len(txs) THEN Min(cfg.max_score, total)
    ELSE LET t == total + EvaluateTx(txs[i], cfg)
         IN  IF t >= cfg.max_score THEN cfg.max_score
             ELSE EvaluateFrom(txs, cfg, i + 1, t)

RECURSIVE DetailedDropsLast(_, _, _, _, _)
DetailedDropsLast(txs, cfg, i, total, details) ==
    IF i > Len(txs)
    THEN [total |-> Min(cfg.max_score, total), details |-> details]
    ELSE LET r == ScoreTx(txs[i], cfg)
             t == total + r.score
         IN  IF t >= cfg.max_score
             THEN [total |-> cfg.max_score, details |-> details]
             ELSE DetailedDropsLast(txs, cfg, i + 1, t,
                      Append(details,
                             [tx |-> txs[i], score |-> r.score, reason |-> r.reason]))

\* The loop of evaluate_detailed() from index i.
RECURSIVE EvaluateDetailedFrom(_, _, _, _, _)
EvaluateDetailedFrom(txs, cfg, i, total, details) ==
    IF i > Len(txs)
    THEN [total |-> Min(cfg.max_score, total), details |-> details]
    ELSE LET r == ScoreTx(txs[i], cfg)
             d == Append(details,
                         [tx |-> txs[i], score |-> r.score, reason |-> r.reason])
             t == total + r.score
         IN  IF t >= cfg.max_score
             THEN [total |-> cfg.max_score, details |-> d]
             ELSE EvaluateDetailedFrom(txs, cfg, i + 1, t, d)

NoDetailed == [called |-> FALSE, total |-> 0, details |-> <<>>]

\* __init__ raises when float() of some record's amount raises.
CtorRaises(raws) == \E i \in 1..Len(raws) : ~FloatOk(raws[i].amount)

\* self.transactions after the constructor's loop
CtorTransactions(raws) == [i \in 1..Len(raws) |-> MakeTx(raws[i])]

\* ------------------------------------------------------ stacking evaluator

StackThreshold == 10000
StackLargeOut == 20
StackUnknownDest == 15
StackHighFrequency == 10
StackBlacklist == 25
StackBaseline == 5
StackMaxScore == 100
StackWindow == 60
StackMinOthers == 3

\* The dict objects a caller may put in the list, by identity.  1..6 are
\* sample_transactions() (timestamps in seconds after base_time); 7 lies
\* exactly one window after 1; 8 has no key at all; 9 matches every rule.
Objects ==
    <<[amount |-> Num(12000), type |-> Text(s_out),
       destination |-> Text(s_known_wallet), timestamp |-> Num(0)],
      [amount |-> Num(500), type |-> Text(s_in),
       destination |-> Text(s_friend_wallet), timestamp |-> Num(5)],
      [amount |-> Num(300), type |-> Text(s_out),
       destination |-> Text(s_unknown_wallet), timestamp |-> Num(10)],
      [amount |-> Num(15000), type |-> Text(s_out),
       destination |-> Text(s_suspicious_address), timestamp |-> Num(20)],
      [amount |-> Num(750), type |-> Text(s_in),
       destination |-> Text(s_known_wallet), timestamp |-> Num(40)],
      [amount |-> Num(200), type |-> Text(s_out),
       destination |-> Text(s_scam_target), timestamp |-> Num(55)],
      [amount |-> Num(500), type |-> Text(s_in),
       destination |-> Text(s_friend_wallet), timestamp |-> Num(60)],
      [amount |-> Missing, type |-> Missing,
       destination |-> Missing, timestamp |-> Missing],
      [amount |-> Num(12000), type |-> Text(s_out),
       destination |-> Text(s_unknown_wallet), timestamp |-> Num(0)]>>

Refs == 1..Len(Objects)

Abs(x) == IF x < 0 THEN -x ELSE x

\* tx.get('amount', 0)
SAmount(o) == IF o.amount.tag = "num" THEN o.amount.num ELSE 0

\* tx.get('destination', '')
SDestination(o) == IF o.destination.tag = "str" THEN o.destination.str ELSE s_empty

\* tx.get('timestamp') is truthy: a datetime always is, None is not.
SHasTime(o) == o.timestamp.tag = "num"

\* _is_high_frequency(tx): `other is not tx` compares object identity.
IsHighFrequency(refs, r) ==
    /\ SHasTime(Objects[r])
    /\ Cardinality({j \in 1..Len(refs) :
           /\ refs[j] # r
           /\ SHasTime(Objects[refs[j]])
           /\ Abs(Objects[r].timestamp.num - Objects[refs[j]].timestamp.num)
                  < StackWindow}) >= StackMinOthers

\* _is_blacklisted(destination)
IsBlacklisted(destination) ==
    destination \in {s_unknown_wallet, s_suspicious_address, s_scam_target}

\* risk_points before the final `or 5`
RiskPoints(refs, r) ==
    LET o == Objects[r]
    IN  (IF SAmount(o) > StackThreshold /\ o.type = Text(s_out)
         THEN StackLargeOut ELSE 0)
      + (IF StartsWith(SDestination(o), s_unknown_) THEN StackUnknownDest ELSE 0)
      + (IF IsHighFrequency(refs, r) THEN StackHighFrequency ELSE 0)
      + (IF IsBlacklisted(SDestination(o)) THEN StackBlacklist ELSE 0)

StackEvaluateTxBaselineAlways(refs, r) ==
    LET o == Objects[r]
    IN  RiskPoints(refs, r)
      + (IF \/ SAmount(o) > StackThreshold /\ o.type = Text(s_out)
            \/ StartsWith(SDestination(o), s_unknown_)
         THEN 0 ELSE StackBaseline)

\* _evaluate_tx(tx) of the stacking evaluator: risk_points or 5
StackEvaluateTx(refs, r) ==
    IF RiskPoints(refs, r) = 0 THEN StackBaseline ELSE RiskPoints(refs, r)

RECURSIVE SumSeq(_)
SumSeq(s) == IF Len(s) = 0 THEN 0 ELSE s[1] + SumSeq(Tail(s))

\* evaluate() of the stacking evaluator, with what it computed on the way
StackEvaluate(refs) ==
    LET points == [i \in 1..Len(refs) |-> StackEvaluateTx(refs, refs[i])]
    IN  [done |-> TRUE,
         points |-> points,
         high |-> [i \in 1..Len(refs) |-> IsHighFrequency(refs, refs[i])],
         score |-> Min(StackMaxScore, SumSeq(points))]

NoResult == [done |-> FALSE, points |-> <<>>, high |-> <<>>, score |-> 0]

\* ---------------------------------------------------------- input domains

\* Records for the evaluation runs: large outbound, unknown destination,
\* baseline, and large outbound to an unknown destination.
SampleRecords ==
    {[amount |-> Num(12000), type |-> Text(s_out), destination |-> Text(s_known_wallet)],
     [amount |-> Num(300), type |-> Text(s_out), destination |-> Text(s_unknown_wallet)],
     [amount |-> Num(500), type |-> Text(s_in), destination |-> Text(s_friend_wallet)],
     [amount |-> Num(12000), type |-> Text(s_OUT), destination |-> Text(s_Unknown_Wallet)]}

\* Overrides the constructor accepts: it converts with float()/int() and
\* validates nothing, so negative scores and a negative maximum get through.
Configs ==
    [large_out_threshold : {DefaultThreshold},
     score_large_out : {DefaultLargeOut, -20},
     score_unknown_dest : {DefaultUnknownDest, 0},
     score_baseline : {DefaultBaseline, -5},
     max_score : {DefaultMaxScore, 20, -1}]

RawAmounts ==
    {Missing, NoneVal, Text(s_abc), Text(<<"3","0","0">>),
     Num(300), Num(500), Num(10000), Num(12000)}
RawTypes == {Missing, Text(s_in), Text(s_out), Text(s_OUT)}
RawDestinations ==
    {Missing, Text(s_known_wallet), Text(s_unknown_wallet), Text(s_friend_wallet),
     Text(s_UNKNOWN), Text(s_unknownabc), Text(s_unknown_nl)}

RawRecords == [amount : RawAmounts, type : RawTypes, destination : RawDestinations]

CtorConfigs ==
    {DefaultConfig,
     [large_out_threshold |-> 500, score_large_out |-> 7, score_unknown_dest |-> 3,
      score_baseline |-> 1, max_score |-> DefaultMaxScore]}

\* ----------------------------------------------------------------- actions

StackIdle == sTransactions = <<>> /\ sResult = NoResult

EvaluateDraining ==
    /\ pc = "ready"
    /\ returned' = returned \cup {EvaluateFrom(transactions, config, 1, 0)}
    /\ transactions' = IF Len(transactions) = 0 THEN transactions ELSE Tail(transactions)
    /\ UNCHANGED <<pc, input, config, detailed, sTransactions, sResult>>

\* evaluate() of the configurable evaluator
Evaluate ==
    /\ pc = "ready"
    /\ returned' = returned \cup {EvaluateFrom(transactions, config, 1, 0)}
    /\ UNCHANGED <<pc, input, transactions, config, detailed, sTransactions, sResult>>

\* evaluate_detailed() of the configurable evaluator
EvaluateDetailed ==
    /\ pc = "ready"
    /\ detailed' = [called |-> TRUE] @@ EvaluateDetailedFrom(transactions, config, 1, 0, <<>>)
    /\ UNCHANGED <<pc, input, transactions, config, returned, sTransactions, sResult>>

\* WalletRiskEvaluator(transactions, **overrides) of the configurable evaluator
Construct ==
    /\ pc = "new"
    /\ \E raws \in SeqUpTo(RawRecords, MaxRaw), cfg \in CtorConfigs :
          /\ input' = raws
          /\ IF CtorRaises(raws)
             THEN pc' = "raised" /\ UNCHANGED <<transactions, config>>
             ELSE /\ pc' = "ready"
                  /\ transactions' = CtorTransactions(raws)
                  /\ config' = cfg
    /\ UNCHANGED <<returned, detailed, sTransactions, sResult>>

\* evaluate() of the stacking evaluator
StackEvaluateCall ==
    /\ pc = "stack"
    /\ sResult' = StackEvaluate(sTransactions)
    /\ UNCHANGED <<pc, input, transactions, config, returned, detailed,
                   sTransactions>>

\* ---------------------------------------------------------- specifications

\* A configurable evaluator after construction from well-formed records.
Init ==
    /\ pc = "ready"
    /\ \E raws \in SeqUpTo(SampleRecords, MaxTx), cfg \in Configs :
          /\ input = raws
          /\ transactions = CtorTransactions(raws)
          /\ config = cfg
    /\ returned = {}
    /\ detailed = NoDetailed
    /\ StackIdle

Next == Evaluate \/ EvaluateDetailed

Spec == Init /\ [][Next]_vars

\* Before the constructor runs, on loosely typed input.
InitCtor ==
    /\ pc = "new"
    /\ input = <<>>
    /\ transactions = <<>>
    /\ config = DefaultConfig
    /\ returned = {}
    /\ detailed = NoDetailed
    /\ StackIdle

NextCtor == Construct \/ Evaluate \/ EvaluateDetailed

SpecCtor == InitCtor /\ [][NextCtor]_vars

\* A stacking evaluator after construction (it keeps the caller's list).
InitStack ==
    /\ pc = "stack"
    /\ input = <<>>
    /\ transactions = <<>>
    /\ config = DefaultConfig
    /\ returned = {}
    /\ detailed = NoDetailed
    /\ sTransactions \in SeqUpTo(Refs, MaxRefs)
    /\ sResult = NoResult

NextStack == StackEvaluateCall

SpecStack == InitStack /\ [][NextStack]_vars

\* ------------------------------------------------------------------ claims

\* Sum of the per-transaction scores of the whole list, no early exit, no clamp.
UnclampedTotal(txs, cfg) == SumSeq([i \in 1..Len(txs) |-> EvaluateTx(txs[i], cfg)])

DetailScores == [i \in 1..Len(detailed.details) |-> detailed.details[i].score]

\* C1: every score evaluate() returns is an integer r with 0 <= r <= max_score,
\* for every transaction list and every configuration the constructor accepts.
C1_ScoreWithinRange ==
    \A r \in returned : r \in Int /\ 0 <= r /\ r <= config.max_score

\* C2: evaluate() with its early exit returns exactly
\* min(max_score, sum of the scores of all transactions).
C2_EarlyExitEqualsClampedSum ==
    \A r \in returned : r = Min(config.max_score, UnclampedTotal(transactions, config))

\* C3: the scores in the detail list evaluate_detailed() returns, summed and
\* clamped to max_score, equal the total it returns and the score evaluate()
\* returns on the same evaluator.
C3_DetailedConsistent ==
    detailed.called =>
        /\ Min(config.max_score, SumSeq(DetailScores)) = detailed.total
        /\ \A r \in returned : r = Min(config.max_score, SumSeq(DetailScores))

\* C3 witness: both operations ran on a list whose running total reached
\* max_score before its last transaction.
C3_Witness ==
    /\ detailed.called
    /\ returned # {}
    /\ Len(transactions) >= 3
    /\ Len(detailed.details) < Len(transactions)
    /\ detailed.total = config.max_score

\* C4: evaluate_detailed() returns one detail entry per transaction, in list
\* order, also when the running total reaches max_score before the last one.
C4_OneDetailPerTransaction ==
    detailed.called =>
        /\ Len(detailed.details) = Len(transactions)
        /\ \A i \in 1..Len(detailed.details) : detailed.details[i].tx = transactions[i]

IsLargeOut(tx) == tx.type = s_out /\ tx.amount > config.large_out_threshold

ScenarioA == [amount |-> Num(12000), type |-> Text(s_out), destination |-> Text(s_known_wallet)]
ScenarioB == [amount |-> Num(300), type |-> Text(s_out), destination |-> Text(s_unknown_wallet)]
ScenarioC == [amount |-> Num(500), type |-> Text(s_in), destination |-> Text(s_friend_wallet)]

MissingOrInvalid(f) == f.tag \in {"missing", "none"} \/ (f.tag = "str" /\ ~IsDigits(f.str))

\* C7: construction never fails, whatever is missing or invalid in a record:
\* such an amount becomes 0.0, a missing type or destination the empty string,
\* the type is lowercase.
C7_ConstructionNeverFails ==
    /\ pc # "raised"
    /\ pc = "ready" =>
          /\ Len(transactions) = Len(input)
          /\ \A i \in 1..Len(input) :
                /\ MissingOrInvalid(input[i].amount) => transactions[i].amount = 0
                /\ input[i].type.tag = "missing" => transactions[i].type = s_empty
                /\ input[i].destination.tag = "missing"
                      => transactions[i].destination = s_empty
                /\ transactions[i].type = Lower(transactions[i].type)

\* C8: the unclamped running sum never decreases from one transaction to the
\* next, for every list and every configuration the constructor accepts.
C8_RunningSumNonDecreasing ==
    returned # {} =>
        \A k \in 1..Len(transactions) :
            UnclampedTotal(SubSeq(transactions, 1, k), config)
                >= UnclampedTotal(SubSeq(transactions, 1, k - 1), config)

\* The other list positions holding a transaction stamped within the window.
PositionsNear(refs, i) ==
    {j \in (1..Len(refs)) \ {i} :
        /\ SHasTime(Objects[refs[j]])
        /\ Abs(Objects[refs[i]].timestamp.num - Objects[refs[j]].timestamp.num) < 60}

\* C9: the high-frequency rule fires for the transaction at position i iff it
\* has a timestamp and at least three other positions j # i hold a
\* transaction stamped less than 60 seconds from it.
C9_HighFrequencyByPosition ==
    sResult.done =>
        \A i \in 1..Len(sTransactions) :
            sResult.high[i] <=>
                /\ SHasTime(Objects[sTransactions[i]])
                /\ Cardinality(PositionsNear(sTransactions, i)) >= 3

SLargeOut(o) == SAmount(o) > 10000 /\ o.type = Text(s_out)
SUnknown(o) == StartsWith(SDestination(o), s_unknown_)
SBlack(o) == SDestination(o) \in {s_unknown_wallet, s_suspicious_address, s_scam_target}

Contribution(cond, points) == IF cond THEN points ELSE 0

\* C10 as stated: the score of a transaction is 20 if large-outbound, 15 if
\* unknown-destination, the baseline 5 exactly when neither of these two
\* matched, plus 10 if high-frequency and 25 if blacklisted.
C10_BaselineUnlessCascadeMatched ==
    sResult.done =>
        \A i \in 1..Len(sTransactions) :
            LET o == Objects[sTransactions[i]]
            IN  sResult.points[i] =
                    Contribution(SLargeOut(o), 20) + Contribution(SUnknown(o), 15)
                  + Contribution(~SLargeOut(o) /\ ~SUnknown(o), 5)
                  + Contribution(sResult.high[i], 10) + Contribution(SBlack(o), 25)

\* C10 amended: the baseline 5 is contributed exactly when none of the four
\* rules matched; a transaction matching only the high-frequency rule scores
\* 10 and one matching only the blacklist rule scores 25.
C10_BaselineOnlyWhenNoRuleMatched ==
    sResult.done =>
        \A i \in 1..Len(sTransactions) :
            LET o == Objects[sTransactions[i]]
                none == ~SLargeOut(o) /\ ~SUnknown(o) /\ ~sResult.high[i] /\ ~SBlack(o)
            IN  sResult.points[i] =
                    Contribution(SLargeOut(o), 20) + Contribution(SUnknown(o), 15)
                  + Contribution(sResult.high[i], 10) + Contribution(SBlack(o), 25)
                  + Contribution(none, 5)

\* C10 witness: a transaction that matched only the high-frequency rule
\* scored 10.
C10_Witness ==
    /\ sResult.done
    /\ \E i \in 1..Len(sTransactions) :
          LET o == Objects[sTransactions[i]]
          IN  /\ sResult.high[i] /\ ~SLargeOut(o) /\ ~SUnknown(o) /\ ~SBlack(o)
              /\ sResult.points[i] = 10

====
